---- MODULE Spec2Model ----
(***************************************************************************)
(* Log ingestion of the Kovaaks tracker: the three page components that    *)
(* ingest CSV exports into the per-scenario series `stats`.                *)
(*   "page"  : src/app/page.tsx        (handleDrop / processAndSaveStats)  *)
(*   "part1" : src/unnamed/part_001    (processFiles, parse callbacks)     *)
(*   "part2" : src/unnamed/part_002    (async processFiles, text parser)   *)
(* A text is a sequence of tokens (fields and separators), so that the     *)
(* replace / match / parse steps of the code act on its structure.         *)
(***************************************************************************)
EXTENDS Integers, Sequences, FiniteSets, TLC

\* ---- bounds of the model ----
MaxFiles == 2
MaxBatches == 2
MaxClock == 1

NaN == 0 - 1

Impls == {"page", "part1", "part2"}

(***************************************************************************)
(* Texts and dates                                                         *)
(***************************************************************************)
Years == {"2024", "2025", "2026"}
TwoDigits == {"00", "01", "02", "03", "05", "06", "07", "10", "11", "18", "19", "20", "30"}

\* numeric value of a digit token
Num(t) ==
  CASE t = "00" -> 0 [] t = "01" -> 1 [] t = "02" -> 2 [] t = "03" -> 3
    [] t = "05" -> 5 [] t = "06" -> 6 [] t = "07" -> 7 [] t = "10" -> 10
    [] t = "11" -> 11 [] t = "18" -> 18 [] t = "19" -> 19 [] t = "20" -> 20
    [] t = "30" -> 30
    [] t = "2024" -> 2024 [] t = "2025" -> 2025 [] t = "2026" -> 2026

\* the instant of a calendar date and time, in seconds (years counted from 2000)
Instant(Y, M, D, h, m, s) ==
  (((((Num(Y) - 2000) * 12 + Num(M)) * 31 + Num(D)) * 24 + Num(h)) * 60 + Num(m)) * 60 + Num(s)

\* a file-name token YYYY.MM.DD-HH.MM.SS
Dotted(Y, M, D, h, m, s) == <<Y, ".", M, ".", D, "-", h, ".", m, ".", s>>
\* YYYY-MM-DDTHH:MM:SS
IsoText(Y, M, D, h, m, s) == <<Y, "-", M, "-", D, "T", h, ":", m, ":", s>>

IsDotted(t) ==
  /\ Len(t) = 11
  /\ t[1] \in Years /\ t[2] = "." /\ t[3] \in TwoDigits /\ t[4] = "."
  /\ t[5] \in TwoDigits /\ t[6] = "-" /\ t[7] \in TwoDigits /\ t[8] = "."
  /\ t[9] \in TwoDigits /\ t[10] = "." /\ t[11] \in TwoDigits

IsIso(t) ==
  /\ Len(t) \in {11, 14}
  /\ t[1] \in Years /\ t[2] = "-" /\ t[3] \in TwoDigits /\ t[4] = "-"
  /\ t[5] \in TwoDigits /\ t[6] = "T" /\ t[7] \in TwoDigits /\ t[8] = ":"
  /\ t[9] \in TwoDigits /\ t[10] = ":" /\ t[11] \in TwoDigits
  /\ Num(t[3]) \in 1..12 /\ Num(t[5]) \in 1..31
  /\ Num(t[7]) \in 0..23 /\ Num(t[9]) \in 0..59 /\ Num(t[11]) \in 0..59
  /\ Len(t) = 14 => (t[12] = "." /\ t[13] = "000" /\ t[14] = "Z")

\* Date.parse: the instant of a text, NaN when the text is no date.  Besides the
\* ISO form the engines accept the long form "Month D, YYYY".
DateParse(t) ==
  IF IsIso(t) THEN Instant(t[1], t[3], t[5], t[7], t[9], t[11])
  ELSE IF t \in {<<"March 7, 2024">>, <<"March 07, 2024">>}
       THEN Instant("2024", "03", "07", "00", "00", "00")
  ELSE IF t = <<"January 5, 2025">> THEN Instant("2025", "01", "05", "00", "00", "00")
  ELSE NaN

\* String.prototype.replace(/\./g, to): every "." becomes `to`
ReplaceAllDots(t, to) == [i \in 1..Len(t) |-> IF t[i] = "." THEN to ELSE t[i]]

RECURSIVE FirstIndex(_, _, _)
FirstIndex(t, tok, i) ==
  IF i > Len(t) THEN 0 ELSE IF t[i] = tok THEN i ELSE FirstIndex(t, tok, i + 1)

\* String.prototype.replace(from, to) with a string pattern: the first match only
ReplaceFirst(t, from, to) ==
  LET k == FirstIndex(t, from, 1)
  IN  IF k = 0 THEN t ELSE [i \in 1..Len(t) |-> IF i = k THEN to ELSE t[i]]

\* collation order of the tokens (punctuation, digits, letters)
CollationOrder ==
  <<"-", ":", ".", "00", "000", "01", "02", "03", "05", "06", "07", "10", "11", "18",
    "19", "20", "2024", "2025", "2026", "30", "A", "B", "January 5, 2025",
    "March 07, 2024", "March 7, 2024", "T", "yesterday", "Z">>

TokRank(tok) == FirstIndex(CollationOrder, tok, 1)

\* String.prototype.localeCompare: negative, zero or positive
RECURSIVE LocaleCompareFrom(_, _, _)
LocaleCompareFrom(a, b, i) ==
  IF i > Len(a) /\ i > Len(b) THEN 0
  ELSE IF i > Len(a) THEN -1
  ELSE IF i > Len(b) THEN 1
  ELSE IF a[i] # b[i] THEN TokRank(a[i]) - TokRank(b[i])
  ELSE LocaleCompareFrom(a, b, i + 1)

LocaleCompare(a, b) == LocaleCompareFrom(a, b, 1)

\* new Date().toISOString() at clock reading c
ClockSeconds == <<"00", "01", "02">>
NowIso(c) ==
  <<"2026", "-", "11", "-", "06", "T", "10", ":", "30", ":", ClockSeconds[c + 1], ".", "000", "Z">>

\* parseFloat of a numeric cell or match
ParseFloat(t) ==
  CASE t = "10" -> 10 [] t = "20" -> 20 [] t = "30" -> 30 [] t = "0" -> 0
    [] OTHER -> NaN

\* parseInt of a count cell or match
ParseInt(t) ==
  CASE t = "0" -> 0 [] t = "20" -> 20 [] t = "80" -> 80 [] OTHER -> NaN

\* A number that may be fractional is the quotient n / d in lowest terms; the
\* quotient 0 / 0 is NaN.
RECURSIVE Gcd(_, _)
Gcd(a, b) == IF b = 0 THEN a ELSE Gcd(b, a % b)

Q(n, d) ==
  IF d = 0 THEN [n |-> 0, d |-> 0]
  ELSE LET g == Gcd(IF n < 0 THEN 0 - n ELSE n, d)
       IN  [n |-> n \div g, d |-> d \div g]

NaNQ == Q(0, 0)
ZeroQ == Q(0, 1)

QAdd(a, b) == Q(a.n * b.d + b.n * a.d, a.d * b.d)
QTimes(a, k) == Q(a.n * k, a.d)
QOver(a, k) == Q(a.n, a.d * k)

\* parseFloat where the text may hold a fraction
ParseFloatQ(t) ==
  CASE t = "0.5" -> Q(1, 2) [] t = "0.8" -> Q(4, 5) [] t = "1" -> Q(1, 1)
    [] t = "85.5" -> Q(171, 2) [] t = "80" -> Q(80, 1)
    [] OTHER -> IF ParseFloat(t) = NaN THEN NaNQ ELSE Q(ParseFloat(t), 1)

\* x || '0' on a cell: the cell unless it is missing or empty
OrZeroText(t) == IF t = "" THEN "0" ELSE t

\* parseFloat(x) || 0 where the value may be fractional
FloatQOrZero(t) == IF ParseFloatQ(t) = NaNQ THEN ZeroQ ELSE ParseFloatQ(t)

(***************************************************************************)
(* Files.  A name is its parts between " - "; the content is one of the    *)
(* export layouts.                                                         *)
(***************************************************************************)
Scenarios == {"A", "B"}

D18 == Dotted("2025", "11", "03", "20", "05", "18")
D19 == Dotted("2025", "11", "03", "20", "05", "19")

NoRows == <<>>

\* a per-event log: header "Kill #,Timestamp,...", event rows, "Key:,value" footer
Detailed(scen, date, footScen, footScore, dmg) ==
  [parts |-> <<<<scen>>, date>>, ext |-> ".csv", unreadable |-> FALSE,
   layout |-> "detailed", firstCell |-> "Kill #", footScen |-> footScen,
   footScore |-> footScore, damage |-> dmg, shortRow |-> FALSE, rows |-> NoRows,
   hits |-> "", misses |-> "", avgTtk |-> "", avgFps |-> "",
   accCells |-> <<>>, ttkCells |-> <<>>, killSeconds |-> <<>>]

\* a table with a header row and data rows
Table(scen, firstCell, rows) ==
  [parts |-> <<<<scen>>>>, ext |-> ".csv", unreadable |-> FALSE,
   layout |-> "table", firstCell |-> firstCell, footScen |-> "",
   footScore |-> "", damage |-> 0, shortRow |-> FALSE, rows |-> rows,
   hits |-> "", misses |-> "", avgTtk |-> "", avgFps |-> "",
   accCells |-> <<>>, ttkCells |-> <<>>, killSeconds |-> <<>>]

\* a data row of a table: the cells 'Scenario Name', 'Date and Time', 'Score',
\* 'Accuracy', 'Time To Kill' and 'Avg FPS'
Row(scen, date, score) ==
  [scen |-> scen, date |-> date, score |-> score, acc |-> "", ttk |-> "", fps |-> ""]

FA18 == Detailed("A", D18, "A", "10", 10)
FA18b == Detailed("A", D18, "A", "30", 30)
FA19 == Detailed("A", D19, "A", "20", 20)
FB18 == Detailed("B", D18, "B", "10", 10)
FMar == Detailed("A", <<"March 7, 2024">>, "A", "10", 10)
FJan == Detailed("A", <<"January 5, 2025">>, "A", "20", 20)
FNoScen == Detailed("A", D19, "", "10", 10)
FShort == [Detailed("A", D19, "A", "20", 20) EXCEPT !.shortRow = TRUE]
FLower == [Detailed("B", D19, "B", "20", 20) EXCEPT !.firstCell = "kill#"]
FSum == Table("export", "Scenario Name",
              <<Row("A", <<"January 5, 2025">>, "10"), Row("A", <<"yesterday">>, "20"),
                Row("", <<"March 7, 2024">>, "30"), Row("A", <<"March 7, 2024">>, "abc")>>)
FAlias == Table("export", "Scenario", <<Row("B", <<"March 7, 2024">>, "10")>>)
FOther == Table("notes", "Date", <<Row("", <<"March 7, 2024">>, "10")>>)
FEmpty == [Table("A", "", NoRows) EXCEPT !.layout = "empty"]
FUnreadable == [FA19 EXCEPT !.unreadable = TRUE]
FTxt == [FA19 EXCEPT !.ext = ".txt"]
\* detailed logs with counts, averages and event rows
FHits ==
  [FA18 EXCEPT !.hits = "80", !.misses = "20", !.avgTtk = "10", !.avgFps = "20",
               !.accCells = <<"0.8", "1">>, !.ttkCells = <<"10", "20">>,
               !.killSeconds = <<0, 2, 4, 6, 8, 10, 12, 14, 16, 18, 20>>]
FNoShots == [FA19 EXCEPT !.hits = "0", !.misses = "0", !.accCells = <<"abc">>]
FAllHits == [FB18 EXCEPT !.hits = "20", !.misses = "0", !.accCells = <<"1">>]
FBadTtk == [FA18 EXCEPT !.hits = "20", !.misses = "80", !.avgTtk = "abc", !.avgFps = "abc"]
FBadScore == Detailed("A", D18, "A", "abc", 10)
FNoDate == [Detailed("A", <<>>, "A", "10", 10) EXCEPT !.parts = <<<<"A">>>>, !.hits = "80", !.misses = "20"]
\* tables: one named with a date token, one with numeric cells, one without dates
FSumNamed ==
  [Table("export", "Scenario Name", <<Row("A", <<"March 7, 2024">>, "10")>>)
     EXCEPT !.parts = <<<<"export">>, D18>>]
FSumNums ==
  Table("export", "Scenario Name",
        <<[Row("A", <<"March 7, 2024">>, "10") EXCEPT !.acc = "0.8", !.ttk = "10", !.fps = "20"],
          [Row("B", <<"March 7, 2024">>, "20") EXCEPT !.acc = "85.5", !.ttk = "abc"],
          [Row("B", <<"January 5, 2025">>, "30") EXCEPT !.acc = "abc", !.fps = "abc"]>>)
FSumNoDate == Table("export", "Scenario Name", <<Row("B", <<>>, "10")>>)
\* a detailed log named with another text of the day "March 7, 2024"
FMar07 == Detailed("A", <<"March 07, 2024">>, "A", "30", 30)
\* detailed logs with other sequences of kill timestamps (seconds)
KillSequences ==
  <<<<2, 4, 6, 8, 10, 12>>, <<1, 5, 9, 13>>, <<1, 4, 7, 10, 13>>, <<20, 2, 4, 6, 40>>,
    <<5, 5, 5, 5, 30>>, <<0, 3, 6, 9, 12>>, <<1, 2, 3, 4, 15, 16, 17>>, <<30, 20, 10, 5, 1>>,
    <<7>>>>
KillLogs ==
  [j \in 1..Len(KillSequences) |->
     [FB18 EXCEPT !.killSeconds = KillSequences[j], !.damage = 10 * j]]

\* text.startsWith('Kill #') || text.includes('Kill #,Timestamp')
IsDetailedText(f) == f.layout = "detailed" /\ f.firstCell = "Kill #"

\* the header search of page.tsx: a row among the first 25 whose lower-cased
\* text includes "kill #" or "kill#"
HasKillHeader(f) == f.layout = "detailed" /\ f.firstCell \in {"Kill #", "kill#"}

\* the number of rows Papa.parse returns for the file
HasRows(f) == f.layout # "empty"

NewId(b, i, r) == <<b, i, r>>

\* KovaaksDataPoint
DataPoint(id, date, score, scenario, accuracy, ttk, fps, fatigue) ==
  [id |-> id, date |-> date, score |-> score, scenario |-> scenario,
   accuracy |-> accuracy, ttk |-> ttk, fps |-> fps, fatigue |-> fatigue]

(***************************************************************************)
(* Extraction of the records of one file                                   *)
(***************************************************************************)
\* page.tsx parseFileName: the scenario is the first part, the date the last
ParseFileName(f) ==
  [scenario |-> f.parts[1][1], dateRaw |-> f.parts[Len(f.parts)]]

\* page.tsx: dateRaw.replace(/\./g, "-").replace("-", "T").replace(/\./g, ":")
FormattedDate(dateRaw) ==
  ReplaceAllDots(ReplaceFirst(ReplaceAllDots(dateRaw, "-"), "-", "T"), ":")

\* the cells of a column that parse as numbers, parsed
ParsedCells(cells) ==
  LET kept == SelectSeq(cells, LAMBDA t : ParseFloatQ(t) # NaNQ)
  IN  [j \in 1..Len(kept) |-> ParseFloatQ(kept[j])]

RECURSIVE QSum(_)
QSum(values) == IF values = <<>> THEN ZeroQ ELSE QAdd(values[1], QSum(Tail(values)))

\* page.tsx calculateAverage
CalculateAverage(values) ==
  IF Len(values) = 0 THEN ZeroQ ELSE QOver(QSum(values), Len(values))

\* page.tsx: footer.match(/Avg FPS:?,?(\d+\.?\d*)/i), 0 without a match
PageFps(f) == FloatQOrZero(f.avgFps)

\* page.tsx: the kill times kept (seconds > 0) and the fatigue index of them
KillTimes(f) == SelectSeq(f.killSeconds, LAMBDA t : t > 0)

\* duration = end - start, the last kill time minus the first
Duration(killTimes) == killTimes[Len(killTimes)] - killTimes[1]

ReachesSplit_fromTen(killTimes) == Len(killTimes) > 4 /\ Duration(killTimes) >= 10

\* killTimes.length > 4 and duration > 10
ReachesSplit(killTimes) == Len(killTimes) > 4 /\ Duration(killTimes) > 10

FirstHalfKills_afterStart(killTimes) ==
  Cardinality({j \in 1..Len(killTimes) :
                 /\ killTimes[j] > killTimes[1]
                 /\ 2 * killTimes[j] <= 2 * killTimes[1] + Duration(killTimes)})

\* the kills with t <= midPoint, midPoint = start + duration / 2
FirstHalfKills(killTimes) ==
  Cardinality({j \in 1..Len(killTimes) :
                 2 * killTimes[j] <= 2 * killTimes[1] + Duration(killTimes)})

FatigueIndex(killTimes) ==
  IF ReachesSplit(killTimes) /\ FirstHalfKills(killTimes) > 0
  THEN Q((Len(killTimes) - FirstHalfKills(killTimes)) * 100, FirstHalfKills(killTimes))
  ELSE ZeroQ

\* page.tsx, the parse callback: one record when a "Kill #" header row is found
PageExtract(f, b, i) ==
  IF HasRows(f) /\ HasKillHeader(f)
  THEN <<DataPoint(NewId(b, i, 1), FormattedDate(ParseFileName(f).dateRaw),
                   f.damage, ParseFileName(f).scenario,
                   QTimes(CalculateAverage(ParsedCells(f.accCells)), 100),
                   CalculateAverage(ParsedCells(f.ttkCells)),
                   PageFps(f), FatigueIndex(KillTimes(f)))>>
  ELSE <<>>

\* page.tsx line 220: row[ttkIdx].replace on a row shorter than the header
PageThrows(f) == HasRows(f) /\ HasKillHeader(f) /\ f.shortRow

\* the parts of the name that hold a token YYYY.MM.DD-HH.MM.SS
NameTokens(f) == SelectSeq(f.parts, IsDotted)

\* part_001: nameMatch[0].replace(/\./g, '-').replace('-', 'T').replace(/\./g, ':')
Part1IsoString(tok) ==
  ReplaceAllDots(ReplaceFirst(ReplaceAllDots(tok, "-"), "-", "T"), ":")

\* part_002: datePart.replace(/\./g, '-') + "T" + timePart.replace(/\./g, ':')
Part2IsoString(tok) ==
  ReplaceAllDots(SubSeq(tok, 1, 5), "-") \o <<"T">> \o ReplaceAllDots(SubSeq(tok, 7, 11), ":")

\* the date of a detailed log: the ingestion time unless the name holds a token
\* whose conversion parses
Part1NameDate(f, now) ==
  IF NameTokens(f) # <<>> /\ DateParse(Part1IsoString(NameTokens(f)[1])) # NaN
  THEN Part1IsoString(NameTokens(f)[1]) ELSE NowIso(now)

Part2NameDate(f, now) ==
  IF NameTokens(f) # <<>> /\ DateParse(Part2IsoString(NameTokens(f)[1])) # NaN
  THEN Part2IsoString(NameTokens(f)[1]) ELSE NowIso(now)

Accuracy_overMisses(hits, misses) ==
  IF hits = NaN \/ misses = NaN THEN ZeroQ
  ELSE IF hits + misses > 0 THEN Q(hits, misses) ELSE ZeroQ

\* part_001, part_002: accuracy = hits / (hits + misses) if hits + misses > 0,
\* else 0 (a comparison with NaN is false)
Accuracy(hits, misses) ==
  IF hits = NaN \/ misses = NaN THEN ZeroQ
  ELSE IF hits + misses > 0 THEN Q(hits, hits + misses) ELSE ZeroQ

\* part_001: parseInt(dataMap['Hit Count'] || '0')
Part1Count(t) == ParseInt(OrZeroText(t))

\* part_002: text.match(/Hit Count:[,;\s]+(\d+)/i), 0 without a match
Part2Count(t) == IF ParseInt(t) = NaN THEN 0 ELSE ParseInt(t)

\* part_002: text.match(/Avg TTK:[,;\s]+([\d\.,]+)/i), 0 without a match
Part2Average(t) == FloatQOrZero(t)

\* parseFloat(x) || 0
FloatOrZero(t) == IF ParseFloat(t) = NaN THEN 0 ELSE ParseFloat(t)

NamedRows_firstOnly(f) == SelectSeq(f.rows, LAMBDA r : r.scen # "" /\ r = f.rows[1])

\* the data rows that carry a scenario name, in file order
NamedRows(f) == SelectSeq(f.rows, LAMBDA r : r.scen # "")

RowIndex(f, k) ==
  CHOOSE j \in 1..Len(f.rows) :
    /\ f.rows[j].scen # ""
    /\ Cardinality({m \in 1..j : f.rows[m].scen # ""}) = k

\* part_001, the parse callback (TYPE A: first cell "Kill #"; TYPE B: first cell
\* "Scenario Name"): the records of the file, in the order they are pushed
Part1Extract(f, b, i, now) ==
  IF ~HasRows(f) THEN <<>>
  ELSE IF f.firstCell = "Kill #"
  THEN IF f.footScen # "" /\ ParseFloat(f.footScore) # NaN
       THEN <<DataPoint(NewId(b, i, 1), Part1NameDate(f, now),
                        ParseFloat(f.footScore), f.footScen,
                        Accuracy(Part1Count(f.hits), Part1Count(f.misses)),
                        ParseFloatQ(OrZeroText(f.avgTtk)),
                        ParseFloatQ(OrZeroText(f.avgFps)), ZeroQ)>>
       ELSE <<>>
  ELSE IF f.firstCell = "Scenario Name"
  THEN [k \in 1..Len(NamedRows(f)) |->
          LET r == NamedRows(f)[k]
          IN  DataPoint(NewId(b, i, RowIndex(f, k)),
                        IF r.date # <<>> THEN r.date ELSE NowIso(now),
                        FloatOrZero(r.score), r.scen, FloatQOrZero(r.acc),
                        FloatQOrZero(r.ttk), FloatQOrZero(r.fps), ZeroQ)]
  ELSE <<>>

\* part_002: Score:[,;\s]+([\d\.,]+) matched or '0'
Part2RawScore(f) == IF ParseFloat(f.footScore) # NaN THEN f.footScore ELSE "0"

\* part_002, one iteration of the loop: the regular-expression parser for a
\* detailed log, else the header-keyed table parser reading the column
\* 'Scenario Name' or 'Scenario'
Part2Extract(f, b, i, now) ==
  IF IsDetailedText(f)
  THEN IF f.footScen # "" /\ ParseFloat(Part2RawScore(f)) # NaN
       THEN <<DataPoint(NewId(b, i, 1), Part2NameDate(f, now),
                        ParseFloat(Part2RawScore(f)), f.footScen,
                        Accuracy(Part2Count(f.hits), Part2Count(f.misses)),
                        Part2Average(f.avgTtk), Part2Average(f.avgFps), ZeroQ)>>
       ELSE <<>>
  ELSE IF f.layout = "table" /\ f.firstCell \in {"Scenario Name", "Scenario"}
  THEN [k \in 1..Len(NamedRows(f)) |->
          LET r == NamedRows(f)[k]
          IN  DataPoint(NewId(b, i, RowIndex(f, k)),
                        IF r.date # <<>> THEN r.date ELSE NowIso(now),
                        ParseFloat(IF r.score # "" THEN r.score ELSE "0"), r.scen,
                        ParseFloatQ(OrZeroText(r.acc)), ParseFloatQ(OrZeroText(r.ttk)),
                        ParseFloatQ(OrZeroText(r.fps)), ZeroQ)]
  ELSE <<>>

(***************************************************************************)
(* Array.prototype.sort for arrays shorter than 64: the leading run is      *)
(* taken as it is (reversed when strictly descending) and the rest is       *)
(* inserted by binary search.  A comparator result of NaN counts as 0.      *)
(***************************************************************************)
\* page.tsx: (a, b) => a.date.localeCompare(b.date)
CompareText(a, b) == LocaleCompare(a.date, b.date)

\* part_001, part_002: (a, b) => new Date(a.date).getTime() - new Date(b.date).getTime()
CompareTime(a, b) ==
  IF DateParse(a.date) = NaN \/ DateParse(b.date) = NaN THEN 0
  ELSE DateParse(a.date) - DateParse(b.date)

Compare(by, a, b) == IF by = "text" THEN CompareText(a, b) ELSE CompareTime(a, b)

Reverse(s) == [i \in 1..Len(s) |-> s[Len(s) + 1 - i]]

RECURSIVE RunEnd(_, _, _, _)
RunEnd(by, s, desc, n) ==
  IF n = Len(s) THEN n
  ELSE LET o == Compare(by, s[n + 1], s[n])
       IN  IF (desc /\ o >= 0) \/ (~desc /\ o < 0) THEN n
           ELSE RunEnd(by, s, desc, n + 1)

RECURSIVE InsertionPoint(_, _, _, _, _)
InsertionPoint(by, s, pivot, left, right) ==
  IF left >= right THEN left
  ELSE LET mid == left + ((right - left) \div 2)
       IN  IF Compare(by, pivot, s[mid]) < 0
           THEN InsertionPoint(by, s, pivot, left, mid)
           ELSE InsertionPoint(by, s, pivot, mid + 1, right)

RECURSIVE InsertFrom(_, _, _)
InsertFrom(by, s, start) ==
  IF start > Len(s) THEN s
  ELSE LET p == InsertionPoint(by, s, s[start], 1, start)
           moved == SubSeq(s, 1, p - 1) \o <<s[start]>> \o SubSeq(s, p, start - 1)
                      \o SubSeq(s, start + 1, Len(s))
       IN  InsertFrom(by, moved, start + 1)

ArraySort(by, s) ==
  IF Len(s) < 2 THEN s
  ELSE LET desc == Compare(by, s[2], s[1]) < 0
           n == RunEnd(by, s, desc, 2)
           run == IF desc THEN Reverse(SubSeq(s, 1, n)) ELSE SubSeq(s, 1, n)
       IN  InsertFrom(by, run \o SubSeq(s, n + 1, Len(s)), n + 1)

(***************************************************************************)
(* The series and its merge                                                *)
(***************************************************************************)
EmptySeries == [k \in Scenarios |-> <<>>]

Keys(series) == {k \in Scenarios : series[k] # <<>>}

\* Object.values(series).flat()
RECURSIVE FlatOver(_, _)
FlatOver(series, ks) ==
  IF ks = {} THEN <<>>
  ELSE LET k == CHOOSE x \in ks : TRUE
       IN  series[k] \o FlatOver(series, ks \ {k})

Flat(series) == FlatOver(series, Scenarios)

GroupBy_underFirst(list) == [k \in Scenarios |-> IF k = "A" THEN list ELSE <<>>]

\* _.groupBy(list, "scenario")
GroupBy(list) == [k \in Scenarios |-> SelectSeq(list, LAMBDA r : r.scenario = k)]

PageMerge_unsorted(prevStats, newData) == GroupBy(Flat(prevStats) \o newData)

\* page.tsx processAndSaveStats, the updater of setStats
PageMerge(prevStats, newData) ==
  LET grouped == GroupBy(Flat(prevStats) \o newData)
  IN  [k \in Scenarios |-> ArraySort("text", grouped[k])]

PartMerge_resultsOnly(prev, results) ==
  [k \in Scenarios |-> ArraySort("time", results[k])]

\* part_001 finalizeProcessing, part_002 finalize: results sorted per key, then
\* { ...prev, ...results }
PartMerge(prev, results) ==
  [k \in Scenarios |->
     IF results[k] # <<>> THEN ArraySort("time", results[k]) ELSE prev[k]]

\* the keys of _.groupBy(list, "scenario"): the scenarios in the order of their
\* first record
RECURSIVE KeysInOrder(_)
KeysInOrder(list) ==
  IF list = <<>> THEN <<>>
  ELSE LET front == KeysInOrder(SubSeq(list, 1, Len(list) - 1))
           k == list[Len(list)].scenario
       IN  IF \E j \in 1..Len(front) : front[j] = k THEN front ELSE Append(front, k)

SortedScenarios_unsorted(series, keys) == keys

\* page.tsx: Object.keys(stats).sort((a, b) => stats[b].length - stats[a].length),
\* a stable sort: the keys with the most records first
RECURSIVE SortedScenarios(_, _)
SortedScenarios(series, keys) ==
  IF keys = <<>> THEN <<>>
  ELSE LET front == SortedScenarios(series, SubSeq(keys, 1, Len(keys) - 1))
           k == keys[Len(keys)]
           ahead == Cardinality({j \in 1..Len(front) : Len(series[front[j]]) >= Len(series[k])})
       IN  SubSeq(front, 1, ahead) \o <<k>> \o SubSeq(front, ahead + 1, Len(front))

\* no scenario selected: useState<string | null>(null)
NoScenario == "null"

\* page.tsx: if (!selectedScenario && sortedScenarios.length > 0)
\*             setSelectedScenario(sortedScenarios[0])
AutoSelect(selected, sortedScenarios) ==
  IF selected = NoScenario /\ Len(sortedScenarios) > 0 THEN sortedScenarios[1] ELSE selected

(***************************************************************************)
(* The page component: state and handlers                                  *)
(***************************************************************************)
VARIABLES
  impl,          \* which page component runs
  stats,         \* useState<ParsedResults>: scenario -> records
  isProcessing,  \* useState(false)
  batch,         \* the ingestion calls: their files and local variables
  clock,         \* the reading of new Date()
  consoleErrors, \* what console.error was given: the file and the message
  user,          \* useState<any>(null): the logged-in user
  isSyncing,     \* useState(false)
  sync,          \* the sync call: its local variables
  inserts,       \* the calls supabase.from('scores').insert(...) issued so far
  alerts,        \* the messages given to alert()
  selectedScenario, \* useState<string | null>(null)
  users,         \* compare page, useState<any[]>([]): the profiles listed
  selectedUsers, \* compare page, useState<string[]>([])
  comparisonData, \* compare page, useState<any[]>([])
  loading,       \* compare page, useState(true)
  fetches        \* compare page: the selections of the calls of fetchStats in flight

vars ==
  <<impl, stats, isProcessing, batch, clock, consoleErrors, user, isSyncing, sync,
    inserts, alerts, selectedScenario, users, selectedUsers, comparisonData, loading,
    fetches>>

syncVars == <<user, isSyncing, sync, inserts, alerts>>

compareVars == <<users, selectedUsers, comparisonData, loading, fetches>>

NoUser == "null"

\* the local variables of handleSyncToCloud / handleSync; `runs` counts the
\* calls of the handler, `first` is the index of the call's first insert and
\* `report` the message the call ended with
IdleSync ==
  [st |-> "idle", allStats |-> <<>>, i |-> 0, errorCount |-> 0, runs |-> 0, first |-> 1,
   report |-> ""]

Pool ==
  <<FA18, FA18b, FA19, FB18, FMar, FJan, FNoScen, FShort, FLower, FSum, FAlias,
    FOther, FEmpty, FUnreadable, FTxt, FHits, FNoShots, FAllHits, FBadTtk, FBadScore,
    FNoDate, FSumNamed, FSumNums, FSumNoDate, FMar07>> \o KillLogs

PoolIndex(f) == CHOOSE j \in 1..Len(Pool) : Pool[j] = f

\* the files offered to each component
PageOffered == {PoolIndex(f) : f \in {FA18, FA18b, FB18, FMar, FJan, FSum, FShort}}
Part1Offered == {PoolIndex(f) : f \in {FA18, FA19, FSum, FOther, FEmpty, FUnreadable}}
Part2Offered == {PoolIndex(f) : f \in {FA18, FA19, FSum, FAlias, FOther, FUnreadable, FTxt}}

PageFileLists == UNION {[1..n -> PageOffered] : n \in 0..MaxFiles}
Part1FileLists == UNION {[1..n -> Part1Offered] : n \in 0..MaxFiles}
Part2FileLists == UNION {[1..n -> Part2Offered] : n \in 0..MaxFiles}

Batches == 1..MaxBatches

\* the local variables of one ingestion call.  `snapshot` is the series the call
\* closed over, `before` and `after` the series around the call's setStats
IdleBatch ==
  [st |-> "idle", files |-> <<>>, fired |-> {}, order |-> <<>>, processedCount |-> 0,
   pushed |-> <<>>, merged |-> FALSE, snapshot |-> EmptySeries,
   before |-> EmptySeries, after |-> EmptySeries]

FileOf(b, i) == Pool[batch[b].files[i]]

Init ==
  /\ impl \in Impls
  /\ stats = EmptySeries
  /\ isProcessing = FALSE
  /\ batch = [b \in Batches |-> IdleBatch]
  /\ clock = 0
  /\ consoleErrors = <<>>
  /\ user = NoUser
  /\ isSyncing = FALSE
  /\ sync = IdleSync
  /\ inserts = <<>>
  /\ alerts = <<>>
  /\ selectedScenario = NoScenario
  /\ users = <<>>
  /\ selectedUsers = <<>>
  /\ comparisonData = <<>>
  /\ loading = TRUE
  /\ fetches = <<>>

\* new Date() read by a callback: the clock has stayed or has advanced
ReadClock(c) ==
  /\ c \in {clock, clock + 1}
  /\ c <= MaxClock
  /\ clock' = c

CanStart(b) ==
  /\ batch[b].st = "idle"
  /\ \A a \in Batches : a < b => batch[a].st # "idle"

\* the local variables of a call that has just begun, or that returned at once
\* because it was given no file
Started(files) ==
  [IdleBatch EXCEPT !.st = IF Len(files) = 0 THEN "done" ELSE "running",
                    !.files = files, !.snapshot = stats]

\* processedCount++ after the callback of file i has pushed `recs`
Counted(b, i, recs) ==
  [batch[b] EXCEPT !.fired = @ \cup {i}, !.order = Append(@, i),
                   !.processedCount = @ + 1, !.pushed = @ \o recs]

\* the call after its setStats
Finalized(nb, prev, next) ==
  [nb EXCEPT !.st = "done", !.merged = TRUE, !.before = prev, !.after = next]

UpdaterPrev_stale(b) == batch[b].snapshot

\* setStats(prev => ...): the updater is applied to the current series
UpdaterPrev(b) == stats

\* ---- src/app/page.tsx ----
PageHandleDrop(b, files) ==
  /\ impl = "page"
  /\ CanStart(b)
  /\ LET validFiles == SelectSeq(files, LAMBDA j : Pool[j].ext = ".csv")
     IN  /\ batch' = [batch EXCEPT ![b] = Started(validFiles)]
         /\ isProcessing' = (Len(validFiles) # 0)
  /\ UNCHANGED <<impl, stats, clock, consoleErrors>>
  /\ UNCHANGED <<syncVars, compareVars, selectedScenario>>

\* processAndSaveStats and the render that follows it, in which the memo of
\* sortedScenarios and the selection of its first scenario run
PageProcessAndSaveStats(b, newData) ==
  /\ stats' = PageMerge(UpdaterPrev(b), newData)
  /\ isProcessing' = FALSE
  /\ selectedScenario' =
       AutoSelect(selectedScenario,
                  SortedScenarios(stats', KeysInOrder(Flat(UpdaterPrev(b)) \o newData)))

PageAllProcessed_first(nb) == nb.processedCount >= 1

\* processedCount === validFiles.length
PageAllProcessed(nb) == nb.processedCount = Len(nb.files)

PageParseComplete(b, i) ==
  /\ impl = "page"
  /\ batch[b].st = "running"
  /\ i \in 1..Len(batch[b].files) \ batch[b].fired
  /\ ~FileOf(b, i).unreadable
  /\ IF PageThrows(FileOf(b, i))
     THEN /\ batch' = [batch EXCEPT ![b].fired = @ \cup {i}]
          /\ UNCHANGED <<stats, isProcessing, selectedScenario>>
     ELSE LET nb == Counted(b, i, PageExtract(FileOf(b, i), b, i))
          IN  IF PageAllProcessed(nb)
              THEN /\ PageProcessAndSaveStats(b, nb.pushed)
                   /\ batch' = [batch EXCEPT ![b] = Finalized(nb, stats, stats')]
              ELSE /\ batch' = [batch EXCEPT ![b] = nb]
                   /\ UNCHANGED <<stats, isProcessing, selectedScenario>>
  /\ UNCHANGED <<impl, clock, consoleErrors>>
  /\ UNCHANGED <<syncVars, compareVars>>

\* ---- src/unnamed/part_001 ----
Part1ProcessFiles(b, files) ==
  /\ impl = "part1"
  /\ CanStart(b)
  /\ batch' = [batch EXCEPT ![b] = Started(files)]
  /\ isProcessing' = (Len(files) # 0)
  /\ UNCHANGED <<impl, stats, clock, consoleErrors>>
  /\ UNCHANGED <<syncVars, compareVars, selectedScenario>>

Part1FinalizeProcessing(b, pushed) ==
  /\ stats' = PartMerge(UpdaterPrev(b), GroupBy(pushed))
  /\ isProcessing' = FALSE

\* the check `processedCount === files.length`, which the branch for a file
\* without rows returns before
Part1AllProcessed(nb, f) == HasRows(f) /\ nb.processedCount = Len(nb.files)

Part1ParseComplete(b, i) ==
  /\ impl = "part1"
  /\ batch[b].st = "running"
  /\ i \in 1..Len(batch[b].files) \ batch[b].fired
  /\ ~FileOf(b, i).unreadable
  /\ \E c \in 0..MaxClock :
     /\ ReadClock(c)
     /\ LET nb == Counted(b, i, Part1Extract(FileOf(b, i), b, i, c))
        IN  IF Part1AllProcessed(nb, FileOf(b, i))
            THEN /\ Part1FinalizeProcessing(b, nb.pushed)
                 /\ batch' = [batch EXCEPT ![b] = Finalized(nb, stats, stats')]
            ELSE /\ batch' = [batch EXCEPT ![b] = nb]
                 /\ UNCHANGED <<stats, isProcessing>>
  /\ UNCHANGED <<impl, consoleErrors>>
  /\ UNCHANGED <<syncVars, compareVars, selectedScenario>>

\* ---- src/unnamed/part_002 ----
CsvOnly(files) == SelectSeq(files, LAMBDA j : Pool[j].ext \in {".csv", ".CSV"})

Part2ProcessFiles(b, files) ==
  /\ batch' = [batch EXCEPT ![b] = Started(files)]
  /\ isProcessing' = (Len(files) # 0)

Part2OnDrop(b, dropped) ==
  /\ impl = "part2"
  /\ CanStart(b)
  /\ Len(CsvOnly(dropped)) > 0
  /\ Part2ProcessFiles(b, CsvOnly(dropped))
  /\ UNCHANGED <<impl, stats, clock, consoleErrors>>
  /\ UNCHANGED <<syncVars, compareVars, selectedScenario>>

Part2HandleFileSelect(b, selected) ==
  /\ impl = "part2"
  /\ CanStart(b)
  /\ Len(selected) > 0
  /\ Part2ProcessFiles(b, CsvOnly(selected))
  /\ UNCHANGED <<impl, stats, clock, consoleErrors>>
  /\ UNCHANGED <<syncVars, compareVars, selectedScenario>>

Part2Finalize(b, pushed) ==
  /\ stats' = PartMerge(UpdaterPrev(b), GroupBy(pushed))
  /\ isProcessing' = FALSE

Part2AllProcessed(nb) == nb.processedCount = Len(nb.files)

Part2OnReadError_rethrow(b, i) ==
  [batch[b] EXCEPT !.st = "rejected", !.fired = @ \cup {i}]

\* catch (err) { console.error(...) } finally { processedCount++ ... }: the
\* failure of file i is caught and the file is counted
Part2OnReadError(b, i) == Counted(b, i, <<>>)

\* one iteration of the loop, from the resumption after `await file.text()`
Part2LoopStep(b) ==
  /\ impl = "part2"
  /\ batch[b].st = "running"
  /\ \E c \in 0..MaxClock :
     /\ ReadClock(c)
     /\ LET i == batch[b].processedCount + 1
            f == FileOf(b, i)
            nb == IF f.unreadable THEN Part2OnReadError(b, i)
                  ELSE Counted(b, i, Part2Extract(f, b, i, c))
        IN  /\ consoleErrors' =
                 IF f.unreadable
                 THEN Append(consoleErrors, [file |-> batch[b].files[i], what |-> "Error parsing"])
                 ELSE consoleErrors
            /\ IF nb.st = "running" /\ Part2AllProcessed(nb)
               THEN /\ Part2Finalize(b, nb.pushed)
                    /\ batch' = [batch EXCEPT ![b] = Finalized(nb, stats, stats')]
               ELSE /\ batch' = [batch EXCEPT ![b] = nb]
                    /\ UNCHANGED <<stats, isProcessing>>
  /\ UNCHANGED impl
  /\ UNCHANGED <<syncVars, compareVars, selectedScenario>>

Next ==
  \/ \E b \in Batches, files \in PageFileLists : PageHandleDrop(b, files)
  \/ \E b \in Batches, i \in 1..MaxFiles : PageParseComplete(b, i)
  \/ \E b \in Batches, files \in Part1FileLists : Part1ProcessFiles(b, files)
  \/ \E b \in Batches, i \in 1..MaxFiles : Part1ParseComplete(b, i)
  \/ \E b \in Batches, files \in Part2FileLists : Part2OnDrop(b, files)
  \/ \E b \in Batches, files \in Part2FileLists : Part2HandleFileSelect(b, files)
  \/ \E b \in Batches : Part2LoopStep(b)

Spec == Init /\ [][Next]_vars

(***************************************************************************)
(* The same handlers given one file at a time, over every file of the pool *)
(***************************************************************************)
OneFileLists == {<<j>> : j \in 1..Len(Pool)}

FileNext ==
  \/ \E b \in Batches, files \in OneFileLists : PageHandleDrop(b, files)
  \/ \E b \in Batches : PageParseComplete(b, 1)
  \/ \E b \in Batches, files \in OneFileLists : Part1ProcessFiles(b, files)
  \/ \E b \in Batches : Part1ParseComplete(b, 1)
  \/ \E b \in Batches, files \in OneFileLists : Part2OnDrop(b, files)
  \/ \E b \in Batches, files \in OneFileLists : Part2HandleFileSelect(b, files)
  \/ \E b \in Batches : Part2LoopStep(b)

FileSpec == Init /\ [][FileNext]_vars

(***************************************************************************)
(* page.tsx with the scenario list: drops of up to three files and clicks  *)
(***************************************************************************)
\* onClick={() => setSelectedScenario(scen)} of a button of the scenario list
SelectScenario(scen) ==
  /\ scen \in Keys(stats)
  /\ selectedScenario' = scen
  /\ UNCHANGED <<impl, stats, isProcessing, batch, clock, consoleErrors>>
  /\ UNCHANGED <<syncVars, compareVars>>

ViewFileLists ==
  {<<PoolIndex(FB18), PoolIndex(FA18), PoolIndex(FA18b)>>, <<PoolIndex(FA18), PoolIndex(FB18)>>,
   <<PoolIndex(FB18)>>, <<PoolIndex(FShort)>>}

ViewInit == Init /\ impl = "page"

ViewNext ==
  \/ \E b \in Batches, files \in ViewFileLists : PageHandleDrop(b, files)
  \/ \E b \in Batches : \E i \in 1..Len(batch[b].files) : PageParseComplete(b, i)
  \/ \E scen \in Scenarios : SelectScenario(scen)

ViewSpec == ViewInit /\ [][ViewNext]_vars

(***************************************************************************)
(* Cloud sync                                                              *)
(***************************************************************************)
Users == {"u1"}

\* const BATCH_SIZE = 100
BATCH_SIZE == 100

MaxSyncs == 2

\* the row uploaded for a record
UploadRow(u, s, playedAt) ==
  [user_id |-> u, scenario |-> s.scenario, score |-> s.score, accuracy |-> s.accuracy,
   ttk |-> s.ttk, fps |-> s.fps, fatigue |-> s.fatigue, played_at |-> playedAt]

\* page.tsx, part_002: Object.values(stats) flattened and mapped, played_at: s.date
AllStats(series, u) ==
  LET flat == Flat(series)
  IN  [j \in 1..Len(flat) |-> UploadRow(u, flat[j], flat[j].date)]

\* part_001: played_at is the date if it parses, else the time of the sync
Part1ScoresToUpload(series, u, now) ==
  LET flat == Flat(series)
  IN  [j \in 1..Len(flat) |->
         UploadRow(u, flat[j],
                   IF flat[j].date # <<>> /\ DateParse(flat[j].date) # NaN
                   THEN flat[j].date ELSE NowIso(now))]

Min(a, b) == IF a < b THEN a ELSE b

BatchSlice_overlapping(allStats, i) ==
  SubSeq(allStats, i + 1, Min(i + BATCH_SIZE + 1, Len(allStats)))

\* allStats.slice(i, i + BATCH_SIZE)
BatchSlice(allStats, i) == SubSeq(allStats, i + 1, Min(i + BATCH_SIZE, Len(allStats)))

Pending == "pending"

\* supabase.from('scores').insert(rows), awaited
Inserted(rows) == Append(inserts, [rows |-> rows, error |-> Pending])

\* the awaited insert has returned { error }
Returned(error) ==
  [inserts EXCEPT ![Len(inserts)].error = IF error THEN "error" ELSE "null"]

SyncLocalSeries_cleared(series) == EmptySeries

\* the series after a step of the sync handlers, which never call setStats
SyncLocalSeries(series) == series

\* supabase.auth.onAuthStateChange: setUser(session?.user ?? null)
AuthStateChange(u) ==
  /\ user # u
  /\ user' = u
  /\ UNCHANGED <<compareVars, selectedScenario>>
  /\ UNCHANGED <<impl, stats, isProcessing, batch, clock, consoleErrors, isSyncing, sync,
                 inserts, alerts>>

\* the guards shared by the sync handlers; the button is disabled while syncing
SyncGuards(noUser, noStats) ==
  IF user = NoUser
  THEN /\ alerts' = Append(alerts, noUser)
       /\ sync' = [sync EXCEPT !.runs = @ + 1]
       /\ UNCHANGED <<isSyncing, inserts>>
  ELSE /\ Keys(stats) = {}
       /\ alerts' = Append(alerts, noStats)
       /\ sync' = [sync EXCEPT !.runs = @ + 1]
       /\ UNCHANGED <<isSyncing, inserts>>

\* ---- src/app/page.tsx ----
PageHandleSyncToCloud ==
  /\ impl = "page"
  /\ ~isSyncing
  /\ sync.runs < MaxSyncs
  /\ IF user = NoUser \/ Keys(stats) = {}
     THEN SyncGuards("You must be logged in to sync.", "No stats to sync.")
     ELSE LET allStats == AllStats(stats, user)
          IN  /\ isSyncing' = TRUE
              /\ sync' = [st |-> "running", allStats |-> allStats, i |-> 0,
                          errorCount |-> 0, runs |-> sync.runs + 1,
                          first |-> Len(inserts) + 1, report |-> ""]
              /\ inserts' = Inserted(BatchSlice(allStats, 0))
              /\ UNCHANGED alerts
  /\ stats' = SyncLocalSeries(stats)
  /\ UNCHANGED <<compareVars, selectedScenario>>
  /\ UNCHANGED <<impl, isProcessing, batch, clock, consoleErrors, user>>

PageLoopContinues_untilError(i, allStats, error) == ~error /\ i < Len(allStats)

\* for (...; i < allStats.length; i += BATCH_SIZE): an error does not leave the loop
PageLoopContinues(i, allStats, error) == i < Len(allStats)

\* the awaited insert of page.tsx returns
PageInsertReturns(error) ==
  /\ impl = "page"
  /\ sync.st = "running"
  /\ LET errorCount == IF error THEN sync.errorCount + 1 ELSE sync.errorCount
         i == sync.i + BATCH_SIZE
     IN  /\ consoleErrors' =
              IF error THEN Append(consoleErrors, [file |-> 0, what |-> "Sync error:"])
              ELSE consoleErrors
         /\ IF PageLoopContinues(i, sync.allStats, error)
            THEN /\ sync' = [sync EXCEPT !.i = i, !.errorCount = errorCount]
                 /\ inserts' = Append(Returned(error),
                                      [rows |-> BatchSlice(sync.allStats, i), error |-> Pending])
                 /\ UNCHANGED <<isSyncing, alerts>>
            ELSE LET text == IF errorCount = 0
                             THEN "Successfully synced all stats to the cloud!"
                             ELSE "Sync finished with some errors. Check console."
                 IN  /\ sync' = [sync EXCEPT !.st = "done", !.i = i,
                                             !.errorCount = errorCount, !.report = text]
                     /\ inserts' = Returned(error)
                     /\ isSyncing' = FALSE
                     /\ alerts' = Append(alerts, text)
  /\ stats' = SyncLocalSeries(stats)
  /\ UNCHANGED <<compareVars, selectedScenario>>
  /\ UNCHANGED <<impl, isProcessing, batch, clock, user>>

\* ---- src/unnamed/part_001, src/unnamed/part_002 ----
PartStartSync(scoresToUpload) ==
  /\ isSyncing' = TRUE
  /\ sync' = [st |-> "running", allStats |-> scoresToUpload, i |-> 0, errorCount |-> 0,
              runs |-> sync.runs + 1, first |-> Len(inserts) + 1, report |-> ""]
  /\ inserts' = Inserted(scoresToUpload)
  /\ UNCHANGED alerts

Part1HandleSync ==
  /\ impl = "part1"
  /\ ~isSyncing
  /\ sync.runs < MaxSyncs
  /\ IF user = NoUser \/ Keys(stats) = {}
     THEN /\ SyncGuards("Please log in to sync stats.",
                        "No stats to sync! Upload some CSV files first.")
          /\ UNCHANGED clock
     ELSE \E c \in 0..MaxClock :
            /\ ReadClock(c)
            /\ PartStartSync(Part1ScoresToUpload(stats, user, c))
  /\ stats' = SyncLocalSeries(stats)
  /\ UNCHANGED <<compareVars, selectedScenario>>
  /\ UNCHANGED <<impl, isProcessing, batch, consoleErrors, user>>

Part2HandleSync ==
  /\ impl = "part2"
  /\ ~isSyncing
  /\ sync.runs < MaxSyncs
  /\ IF user = NoUser \/ Keys(stats) = {}
     THEN SyncGuards("Please log in to sync stats.",
                     "No stats to sync! Upload some CSV files first.")
     ELSE PartStartSync(AllStats(stats, user))
  /\ stats' = SyncLocalSeries(stats)
  /\ UNCHANGED <<compareVars, selectedScenario>>
  /\ UNCHANGED <<impl, isProcessing, batch, clock, consoleErrors, user>>

\* the awaited insert of handleSync returns
PartInsertReturns(error) ==
  /\ impl \in {"part1", "part2"}
  /\ sync.st = "running"
  /\ inserts' = Returned(error)
  /\ consoleErrors' =
       IF error THEN Append(consoleErrors, [file |-> 0, what |-> "Sync failed"])
       ELSE consoleErrors
  /\ alerts' = Append(alerts, IF error THEN "Sync failed: " ELSE "Success! Synced")
  /\ sync' = [sync EXCEPT !.st = "done", !.errorCount = IF error THEN 1 ELSE 0,
                          !.report = IF error THEN "Sync failed: " ELSE "Success! Synced"]
  /\ isSyncing' = FALSE
  /\ stats' = SyncLocalSeries(stats)
  /\ UNCHANGED <<compareVars, selectedScenario>>
  /\ UNCHANGED <<impl, isProcessing, batch, clock, user>>

\* the number of records of the series a sync starts from
SyncSizes == {0, 1, 100, 101, 250}

\* a series of n records as the running component stores them, half of them
\* under each scenario, the j-th with score j
SyncRecord(c, j, n) ==
  LET base == IF c = "page" THEN PageExtract(FHits, 0, j)[1]
              ELSE IF c = "part1" THEN Part1Extract(FSum, 0, j, 0)[2]
              ELSE Part2Extract(FHits, 0, j, 0)[1]
  IN  [base EXCEPT !.id = <<0, j, 1>>, !.score = j,
                   !.scenario = IF 2 * j <= n + 1 THEN "A" ELSE "B"]

SyncSeries(c, n) == GroupBy([j \in 1..n |-> SyncRecord(c, j, n)])

\* the page after ingestions that left n records
SyncInit ==
  /\ impl \in Impls
  /\ \E n \in SyncSizes : stats = SyncSeries(impl, n)
  /\ isProcessing = FALSE
  /\ batch = [b \in Batches |-> IdleBatch]
  /\ clock = 0
  /\ consoleErrors = <<>>
  /\ user = NoUser
  /\ isSyncing = FALSE
  /\ sync = IdleSync
  /\ inserts = <<>>
  /\ alerts = <<>>
  /\ selectedScenario = NoScenario
  /\ users = <<>>
  /\ selectedUsers = <<>>
  /\ comparisonData = <<>>
  /\ loading = TRUE
  /\ fetches = <<>>

SyncNext ==
  \/ \E u \in Users \cup {NoUser} : AuthStateChange(u)
  \/ PageHandleSyncToCloud
  \/ \E error \in BOOLEAN : PageInsertReturns(error)
  \/ Part1HandleSync
  \/ Part2HandleSync
  \/ \E error \in BOOLEAN : PartInsertReturns(error)

SyncSpec == SyncInit /\ [][SyncNext]_vars

(***************************************************************************)
(* The compare page, src/app/compare/page.tsx                              *)
(***************************************************************************)
\* the calls of fetchStats that may be awaiting their response at a time
MaxInFlight == 2

\* the rows of the table scores, each with the username of its profile
CloudScores ==
  <<[user_id |-> "u1", username |-> "ann", scenario |-> "A", score |-> 10],
    [user_id |-> "u2", username |-> "", scenario |-> "A", score |-> 20],
    [user_id |-> "u1", username |-> "ann", scenario |-> "A", score |-> 30],
    [user_id |-> "u1", username |-> "ann", scenario |-> "B", score |-> 5]>>

\* scores.forEach(run => ...) and Object.values(processed): one entry per
\* scenario, in the order of the scenarios' first rows, with the highest score
\* of each username
RECURSIVE Processed(_)
Processed(scores) ==
  IF scores = <<>> THEN <<>>
  ELSE LET front == Processed(SubSeq(scores, 1, Len(scores) - 1))
           run == scores[Len(scores)]
           username == IF run.username # "" THEN run.username ELSE "Unknown"
           at == {j \in 1..Len(front) : front[j].name = run.scenario}
       IN  IF at = {}
           THEN Append(front, [name |-> run.scenario, best |-> (username :> run.score)])
           ELSE LET j == CHOOSE x \in at : TRUE
                    best == front[j].best
                IN  IF username \notin DOMAIN best \/ best[username] = 0
                       \/ run.score > best[username]
                    THEN [front EXCEPT ![j].best = (username :> run.score) @@ best]
                    ELSE front

\* the response of supabase.from('profiles').select('id, username') arrives
FetchUsersReturns(ok) ==
  /\ loading
  /\ users' = IF ok THEN <<[id |-> "u1", username |-> "ann"], [id |-> "u2", username |-> ""]>>
               ELSE users
  /\ loading' = FALSE
  /\ UNCHANGED <<selectedUsers, comparisonData, fetches, selectedScenario>>
  /\ UNCHANGED <<impl, stats, isProcessing, batch, clock, consoleErrors, syncVars>>

\* toggleUser(id) of a user button and the effect on [selectedUsers] that
\* follows: no user selected empties the data, else fetchStats is called
ToggleUser(id) ==
  /\ \E j \in 1..Len(users) : users[j].id = id
  /\ LET selected == IF \E j \in 1..Len(selectedUsers) : selectedUsers[j] = id
                      THEN SelectSeq(selectedUsers, LAMBDA u : u # id)
                      ELSE Append(selectedUsers, id)
     IN  /\ selectedUsers' = selected
         /\ IF Len(selected) = 0
            THEN comparisonData' = <<>> /\ UNCHANGED fetches
            ELSE /\ Len(fetches) < MaxInFlight
                 /\ fetches' = Append(fetches, selected)
                 /\ UNCHANGED comparisonData
  /\ UNCHANGED <<users, loading, selectedScenario>>
  /\ UNCHANGED <<impl, stats, isProcessing, batch, clock, consoleErrors, syncVars>>

\* the awaited query of the call j of fetchStats returns, with the rows of the
\* users the call was issued for or with no data
FetchStatsReturns(j, ok) ==
  /\ j \in 1..Len(fetches)
  /\ LET scores == SelectSeq(CloudScores,
                             LAMBDA run : \E u \in 1..Len(fetches[j]) : fetches[j][u] = run.user_id)
     IN  comparisonData' = IF ok THEN Processed(scores) ELSE comparisonData
  /\ fetches' = SubSeq(fetches, 1, j - 1) \o SubSeq(fetches, j + 1, Len(fetches))
  /\ UNCHANGED <<users, selectedUsers, loading, selectedScenario>>
  /\ UNCHANGED <<impl, stats, isProcessing, batch, clock, consoleErrors, syncVars>>

CompareNext ==
  \/ \E ok \in BOOLEAN : FetchUsersReturns(ok)
  \/ \E id \in {"u1", "u2"} : ToggleUser(id)
  \/ \E j \in 1..MaxInFlight, ok \in BOOLEAN : FetchStatsReturns(j, ok)

CompareSpec == Init /\ [][CompareNext]_vars

(***************************************************************************)
(* Properties                                                              *)
(***************************************************************************)
Range(s) == {s[i] : i \in 1..Len(s)}

MergedBatches == {b \in Batches : batch[b].merged}

\* the merge of the running component
MergeOf(prev, pushed) ==
  IF impl = "page" THEN PageMerge(prev, pushed) ELSE PartMerge(prev, GroupBy(pushed))

NewRecords(b, k) == {r \in Range(batch[b].pushed) : r.scenario = k}

RecordsOfFile(list, b, i) == {r \in Range(list) : r.id[1] = b /\ r.id[2] = i}

\* C1: after a merge, every scenario that got a new record lists every record it
\* listed before the merge and every new record of that scenario
C1_MergeKeepsOldAndNew ==
  \A b \in MergedBatches : \A k \in Scenarios :
    NewRecords(b, k) # {} =>
      /\ Range(batch[b].before[k]) \subseteq Range(batch[b].after[k])
      /\ NewRecords(b, k) \subseteq Range(batch[b].after[k])

\* a is a later instant than b (no text that is not a time is later or earlier)
Later(a, b) ==
  /\ DateParse(a.date) # NaN
  /\ DateParse(b.date) # NaN
  /\ DateParse(a.date) > DateParse(b.date)

\* C2: in every scenario list no record is later than the one that follows it
C2_SeriesAscendingByTimestamp ==
  \A k \in Scenarios : \A i \in 1..(Len(stats[k]) - 1) :
    ~Later(stats[k][i], stats[k][i + 1])

Orderings(S) ==
  {p \in [1..Cardinality(S) -> S] : \A i, j \in 1..Cardinality(S) : p[i] = p[j] => i = j}

RECURSIVE MergedInOrder(_, _)
MergedInOrder(p, n) ==
  IF n = 0 THEN EmptySeries
  ELSE MergeOf(MergedInOrder(p, n - 1), batch[p[n]].pushed)

\* C3: the series is the result of the merges of the finished batches applied
\* whole, one after the other, in some order
C3_MergesAppliedOneAfterTheOther ==
  \E p \in Orderings(MergedBatches) : stats = MergedInOrder(p, Cardinality(MergedBatches))

\* two batches with records were in flight together and both have merged: the
\* first one merged into the series the second one had produced
C3_TwoOverlappingBatchesMerged ==
  /\ MaxBatches >= 2
  /\ batch[1].merged /\ batch[2].merged
  /\ batch[1].pushed # <<>> /\ batch[2].pushed # <<>>
  /\ batch[1].before # EmptySeries

\* C4: the series changes only in the step in which a batch that has not merged
\* yet has counted its last file, and a batch merges once
C4_SeriesChangesOnlyAtFinalMerge ==
  [][/\ stats' # stats =>
          \E b \in Batches :
            /\ ~batch[b].merged /\ batch'[b].merged
            /\ batch'[b].processedCount = Len(batch'[b].files)
            /\ \A i \in 1..Len(batch'[b].files) : i \in batch'[b].fired
            /\ \A a \in Batches \ {b} : batch'[a] = batch[a]
     /\ \A b \in Batches : batch[b].merged => (batch'[b].merged /\ batch'[b] = batch[b])
    ]_vars

\* a batch in flight holds extracted records while the series is still the one
\* from before the batch
C4_MidFlightSeriesUntouched ==
  \E b \in Batches :
    /\ batch[b].st = "running"
    /\ Len(batch[b].files) >= 2
    /\ batch[b].pushed # <<>>
    /\ stats = batch[b].snapshot

\* the records of a batch in the order of its files
RECURSIVE InFileOrder(_, _, _)
InFileOrder(pushed, b, i) ==
  IF i > MaxFiles + 1 THEN <<>>
  ELSE SelectSeq(pushed, LAMBDA r : r.id[2] = i) \o InFileOrder(pushed, b, i + 1)

NoId(series) ==
  [k \in Scenarios |-> [i \in 1..Len(series[k]) |-> [series[k][i] EXCEPT !.id = <<>>]]]

SameRecords(s1, s2) == \A k \in Scenarios : Range(s1[k]) = Range(s2[k])

\* within each scenario the records of the batch carry well-formed, pairwise
\* different timestamps
DistinctTimes(b) ==
  \A r \in Range(batch[b].pushed) :
    /\ DateParse(r.date) # NaN
    /\ \A q \in Range(batch[b].pushed) :
         (q # r /\ q.scenario = r.scenario) => DateParse(q.date) # DateParse(r.date)

OthersInFlight(b) == \E a \in Batches \ {b} : batch[a].st = "running"

\* C6: in part_001 and part_002 a batch of one or more files whose callbacks
\* have all fired has merged, and the processing flag is cleared unless another
\* batch is in flight
C6_BatchCompletesOnceCallbacksFired ==
  \A b \in Batches :
    (/\ impl \in {"part1", "part2"}
     /\ Len(batch[b].files) >= 1
     /\ batch[b].fired = 1..Len(batch[b].files)) =>
      /\ batch[b].merged
      /\ ~OthersInFlight(b) => ~isProcessing

FailedFiles(b) == {i \in batch[b].fired : FileOf(b, i).unreadable}

\* C7: in part_002, when the read of a file has failed, the call is not
\* rejected, the loop goes on to the files that remain, the batch merges after
\* its last file, and the records of every other file are in the merged series
C7_FileFailureIsLocal ==
  impl = "part2" =>
    \A b \in Batches :
      FailedFiles(b) # {} =>
        /\ batch[b].st \in {"running", "done"}
        /\ batch[b].st = "running" <=> batch[b].processedCount < Len(batch[b].files)
        /\ batch[b].st = "done" =>
             /\ batch[b].merged
             /\ \A i \in 1..Len(batch[b].files) :
                  ~FileOf(b, i).unreadable =>
                    Cardinality(RecordsOfFile(Flat(batch[b].after), b, i))
                      = Len(Part2Extract(FileOf(b, i), b, i, 0))

\* a batch of part_002 has merged the record of one file after the read of
\* another file had failed
C7_MergedDespiteFailure ==
  /\ impl = "part2"
  /\ \E b \in MergedBatches :
       /\ 1 \in FailedFiles(b)
       /\ RecordsOfFile(Flat(stats), b, 2) # {}

SkipReasons == {"UnrecognizedFormat", "MissingScenario", "UnparsableScore"}

\* the content holds neither "Kill #" nor "Scenario Name"
Unrecognized(f) ==
  /\ ~(f.layout = "detailed" /\ f.firstCell = "Kill #")
  /\ f.firstCell # "Scenario Name"

\* C8: every processed file of unrecognized format has exactly one report entry,
\* which names the file and gives the reason UnrecognizedFormat, and every entry
\* gives one of the three reasons
C8_EverySkipReported ==
  /\ \A b \in Batches : \A i \in batch[b].fired :
       Unrecognized(FileOf(b, i)) =>
         Cardinality({n \in 1..Len(consoleErrors) :
                        /\ consoleErrors[n].file = batch[b].files[i]
                        /\ consoleErrors[n].what = "UnrecognizedFormat"}) = 1
  /\ \A n \in 1..Len(consoleErrors) : consoleErrors[n].what \in SkipReasons

\* C9: a file whose content holds neither "Kill #" nor "Scenario Name" gives no
\* record to its batch
C9_UnrecognizedContributesNothing ==
  \A b \in Batches : \A i \in batch[b].fired :
    Unrecognized(FileOf(b, i)) => RecordsOfFile(batch[b].pushed, b, i) = {}

\* C10: the merge of a batch without records leaves every key and every list of
\* the series as it was
C10_EmptyBatchLeavesSeries ==
  \A b \in MergedBatches : batch[b].pushed = <<>> => batch[b].after = batch[b].before

\* a batch of one or more files without any record has merged into a series
\* that held records
C10_EmptyBatchMergedIntoSeries ==
  \E b \in MergedBatches :
    /\ batch[b].pushed = <<>>
    /\ Len(batch[b].files) >= 1
    /\ batch[b].before # EmptySeries

Anonymous(r) == [r EXCEPT !.id = <<>>]

\* how often the record r, its id aside, occurs in the list
Occurrences(r, list) ==
  Cardinality({j \in 1..Len(list) : Anonymous(list[j]) = Anonymous(r)})

\* the second batch merged the records the first batch had merged, right after it
SameBatchTwice ==
  /\ MaxBatches >= 2
  /\ batch[1].merged /\ batch[2].merged
  /\ batch[1].pushed # <<>>
  /\ batch[1].before = EmptySeries
  /\ batch[2].before = batch[1].after
  /\ [j \in 1..Len(batch[1].pushed) |-> Anonymous(batch[1].pushed[j])]
       = [j \in 1..Len(batch[2].pushed) |-> Anonymous(batch[2].pushed[j])]

\* C11: when the same batch of records has been merged twice in succession, each
\* record of the batch occurs in its scenario list twice as often as in the
\* batch, and no record of a list is later than the one that follows it
C11_RepeatedMergeDuplicates ==
  SameBatchTwice =>
    /\ \A r \in Range(batch[1].pushed) :
         Occurrences(r, batch[2].after[r.scenario]) = 2 * Occurrences(r, batch[1].pushed)
    /\ \A k \in Scenarios : \A i \in 1..(Len(batch[2].after[k]) - 1) :
         ~Later(batch[2].after[k][i], batch[2].after[k][i + 1])

\* the insert calls of the current sync, in the order they were issued
SyncCalls == SubSeq(inserts, sync.first, Len(inserts))

RECURSIVE Concat(_)
Concat(calls) == IF calls = <<>> THEN <<>> ELSE calls[1].rows \o Concat(Tail(calls))

\* ceil(n / 100)
CeilOverBatch(n) == (n + 99) \div 100

\* C12: a finished sync of n upload rows has issued ceil(n / 100) insert calls,
\* each with at most 100 rows, and the rows of the calls taken together are the
\* upload rows, each one once
C12_SyncInBatchesOfHundred ==
  sync.st = "done" =>
    /\ Len(SyncCalls) = CeilOverBatch(Len(sync.allStats))
    /\ \A c \in 1..Len(SyncCalls) : Len(SyncCalls[c].rows) <= 100
    /\ Concat(SyncCalls) = sync.allStats

FailedCalls == {c \in 1..Len(SyncCalls) : SyncCalls[c].error = "error"}

ReportsErrors(text) ==
  text \in {"Sync finished with some errors. Check console.", "Sync failed: "}

\* C13: the failures counted are the calls that failed; after a failure the sync
\* is still running or has ended with every upload row submitted; and a sync
\* that has ended reports errors iff one of its calls failed
C13_FailureDoesNotStopSync ==
  /\ sync.st = "running" /\ impl = "page" =>
       /\ sync.errorCount = Cardinality(FailedCalls)
       /\ SyncCalls[Len(SyncCalls)].error = Pending
  /\ sync.st = "done" =>
       /\ sync.errorCount = Cardinality(FailedCalls)
       /\ Concat(SyncCalls) = sync.allStats
       /\ ReportsErrors(sync.report) <=> FailedCalls # {}
       /\ \E a \in 1..Len(alerts) : alerts[a] = sync.report
       /\ ~isSyncing

\* a sync of page.tsx has ended after its second call of three had failed
C13_ThirdCallAfterFailedSecond ==
  /\ impl = "page"
  /\ sync.st = "done"
  /\ Len(SyncCalls) = 3
  /\ FailedCalls = {2}
  /\ Len(SyncCalls[3].rows) > 0

\* C14: no step of a sync changes the series
C14_SyncLeavesSeries ==
  [][stats' = stats]_vars

\* a sync with a failed call has ended, and a second one has been started on
\* the series the first one was started on
C14_RetryAfterFailedSync ==
  /\ sync.runs = 2
  /\ sync.first > 1
  /\ \E c \in 1..(sync.first - 1) : inserts[c].error = "error"
  /\ Keys(stats) # {}
  /\ inserts[sync.first].rows = inserts[1].rows

\* the records extracted by the batches, and the records the series holds
Extracted == UNION {Range(batch[b].pushed) : b \in Batches}
Stored == Range(Flat(stats))

\* the file, and for a table the row, a record was extracted from
SourceFile(r) == Pool[batch[r.id[1]].files[r.id[2]]]
SourceRow(r) == SourceFile(r).rows[r.id[3]]

\* YYYY-MM-DDTHH:MM:SS for the token YYYY.MM.DD-HH.MM.SS
TokenIso(tok) == IsoText(tok[1], tok[3], tok[5], tok[7], tok[9], tok[11])

HasNameToken(f) == NameTokens(f) # <<>>

\* C15: the record of a detailed log whose name holds a token
\* YYYY.MM.DD-HH.MM.SS has the timestamp YYYY-MM-DDTHH:MM:SS of that token
C15_NameTokenGivesTimestamp ==
  \A r \in Extracted :
    (SourceFile(r).layout = "detailed" /\ HasNameToken(SourceFile(r))) =>
      r.date = TokenIso(NameTokens(SourceFile(r))[1])

IsIngestionTime(date) == \E c \in 0..MaxClock : date = NowIso(c)

\* C16: the record of a summary row (part_001, part_002) takes the time of the
\* token in the file name when there is one, else the row's date field when it
\* is a valid time, else the ingestion time
C16_TimestampPriority ==
  impl \in {"part1", "part2"} =>
    \A r \in Extracted :
      SourceFile(r).layout = "table" =>
        IF HasNameToken(SourceFile(r))
        THEN r.date = TokenIso(NameTokens(SourceFile(r))[1])
        ELSE IF SourceRow(r).date # <<>> /\ DateParse(SourceRow(r).date) # NaN
        THEN r.date = SourceRow(r).date
        ELSE IsIngestionTime(r.date)

\* C17: the timestamp of every record of the series is a valid time
C17_StoredTimestampsValid ==
  \A r \in Stored : DateParse(r.date) # NaN

\* C18: no numeric field of a record of the series that came from a summary
\* row is NaN
C18_NoNaNStored ==
  \A r \in Stored :
    SourceFile(r).layout = "table" =>
      /\ r.score # NaN
      /\ r.accuracy # NaNQ /\ r.ttk # NaNQ /\ r.fps # NaNQ /\ r.fatigue # NaNQ

\* C19: the accuracy of every record of the series is between 0 and 1
C19_AccuracyIsFraction ==
  \A r \in Stored :
    /\ r.accuracy.d > 0
    /\ 0 <= r.accuracy.n
    /\ r.accuracy.n <= r.accuracy.d

\* C20: in part_001 and part_002 the record of a detailed log with hit count h
\* and miss count m has the accuracy h / (h + m) when h + m > 0 and 0
\* otherwise; with h = 80 and m = 20 it is 4/5
C20_AccuracyFromCounts ==
  impl \in {"part1", "part2"} =>
    \A r \in Extracted :
      LET f == SourceFile(r)
          h == ParseInt(f.hits)
          m == ParseInt(f.misses)
      IN  (f.layout = "detailed" /\ h # NaN /\ m # NaN) =>
            /\ r.accuracy.d > 0
            /\ IF h + m > 0 THEN r.accuracy.n * (h + m) = h * r.accuracy.d
               ELSE r.accuracy.n = 0
            /\ (h = 80 /\ m = 20) => (r.accuracy.n = 4 /\ r.accuracy.d = 5)

\* the series of part_001 or part_002 holds the record of a detailed log with
\* 80 hits and 20 misses, and the record of one without a shot
C20_CountedLogsStored ==
  /\ impl \in {"part1", "part2"}
  /\ \E r \in Stored : SourceFile(r).hits = "80" /\ SourceFile(r).misses = "20"
  /\ \E r \in Extracted : SourceFile(r).hits = "0" /\ SourceFile(r).misses = "0"

\* the records extracted from detailed logs
FromDetailed == {r \in Extracted : SourceFile(r).layout = "detailed"}

\* the kills of the sequence at or before, and after, start + duration / 2
AtOrBeforeMid(times) ==
  Cardinality({j \in 1..Len(times) : 2 * times[j] <= times[1] + times[Len(times)]})
AfterMid(times) == Len(times) - AtOrBeforeMid(times)

\* C21: the record of a detailed log whose kill times are at least 5 and span
\* more than 10 seconds has the stamina index 100 * (kills after the midpoint)
\* / (kills at or before the midpoint); for [0, 2, ..., 20] that is 100 * 5 / 6
C21_StaminaIndexOfSplit ==
  \A r \in FromDetailed :
    LET times == SourceFile(r).killSeconds
    IN  (Len(times) >= 5 /\ times[Len(times)] - times[1] > 10) =>
          /\ r.fatigue.d > 0
          /\ r.fatigue.n * AtOrBeforeMid(times) = 100 * AfterMid(times) * r.fatigue.d

\* C22: the fatigue index of a record is 0 when the estimator was given fewer
\* than 5 kill times or kill times whose duration is 10 seconds or less
C22_FatigueZeroBelowThresholds ==
  \A r \in FromDetailed :
    LET killTimes == KillTimes(SourceFile(r))
    IN  (Len(killTimes) < 5 \/ killTimes[Len(killTimes)] - killTimes[1] <= 10) =>
          (r.fatigue.n = 0 /\ r.fatigue.d = 1)

\* page.tsx has extracted the record of a log with exactly 4 kill times over
\* more than 10 seconds and the record of a log with 6 kill times over exactly 10
C22_FourKillsAndTenSeconds ==
  /\ impl = "page"
  /\ \E r \in FromDetailed : SourceFile(r).killSeconds = <<1, 5, 9, 13>>
  /\ \E r \in FromDetailed : SourceFile(r).killSeconds = <<2, 4, 6, 8, 10, 12>>

\* C30: in page.tsx, whenever the estimator reaches the split step, the count
\* of the first half is at least 1 and the index is the ratio of the halves
C30_FirstHalfNeverEmpty ==
  impl = "page" =>
    \A r \in FromDetailed :
      LET killTimes == KillTimes(SourceFile(r))
      IN  (Len(killTimes) > 4 /\ killTimes[Len(killTimes)] - killTimes[1] > 10) =>
            /\ FirstHalfKills(killTimes) >= 1
            /\ r.fatigue.d > 0
            /\ r.fatigue.n * FirstHalfKills(killTimes)
                 = 100 * (Len(killTimes) - FirstHalfKills(killTimes)) * r.fatigue.d

\* page.tsx has split kill times that are not in ascending order, and kill
\* times that start with four equal ones
C30_SplitReached ==
  /\ impl = "page"
  /\ \E r \in FromDetailed : SourceFile(r).killSeconds = <<20, 2, 4, 6, 40>>
  /\ \E r \in FromDetailed : SourceFile(r).killSeconds = <<5, 5, 5, 5, 30>>

\* the files a call has finished that are readable, complete detailed logs
DetailedLogsDone(b) ==
  {i \in batch[b].fired :
     /\ FileOf(b, i).layout = "detailed" /\ IsDetailedText(FileOf(b, i))
     /\ HasKillHeader(FileOf(b, i)) /\ HasRows(FileOf(b, i))
     /\ ~FileOf(b, i).unreadable /\ ~FileOf(b, i).shortRow}

\* the log names its scenario and its score is the text of a number
NamesScenarioAndScore(f) == f.footScen # "" /\ ParseFloat(f.footScore) # NaN

\* C23: a detailed log yields no record when its scenario is missing or its
\* score is not the text of a number, and exactly one record otherwise; the
\* series never holds a record of a log that yields none
C23_RecordOnlyWithScenarioAndScore ==
  \A b \in Batches : \A i \in DetailedLogsDone(b) :
    IF NamesScenarioAndScore(FileOf(b, i))
    THEN Cardinality(RecordsOfFile(batch[b].pushed, b, i)) = 1
    ELSE /\ RecordsOfFile(batch[b].pushed, b, i) = {}
         /\ \A r \in Stored : ~(r.id[1] = b /\ r.id[2] = i)

\* the summary tables a call has finished
SummaryTablesDone(b) ==
  {i \in batch[b].fired :
     /\ FileOf(b, i).layout = "table" /\ FileOf(b, i).firstCell = "Scenario Name"
     /\ ~FileOf(b, i).unreadable}

\* the positions of the call's result that hold a record of file i
PushedOf(b, i) ==
  {p \in 1..Len(batch[b].pushed) :
     batch[b].pushed[p].id[1] = b /\ batch[b].pushed[p].id[2] = i}

\* C24: in part_001 and part_002, every data row of a summary table that has a
\* scenario name yields exactly one record of the batch result, a row without
\* one yields none, and the file adds as many records as it has named rows
C24_OneRecordPerNamedRow ==
  impl \in {"part1", "part2"} =>
    \A b \in Batches : \A i \in SummaryTablesDone(b) :
      LET rows == FileOf(b, i).rows
      IN  /\ \A j \in 1..Len(rows) :
                Cardinality({p \in PushedOf(b, i) : batch[b].pushed[p].id[3] = j})
                  = IF rows[j].scen # "" THEN 1 ELSE 0
          /\ Cardinality(PushedOf(b, i))
               = Cardinality({j \in 1..Len(rows) : rows[j].scen # ""})

\* a table with three named rows and one row without a name has been read
C24_TableWithUnnamedRow ==
  /\ impl \in {"part1", "part2"}
  /\ \E b \in Batches : \E i \in SummaryTablesDone(b) :
        /\ FileOf(b, i) = FSum
        /\ Cardinality(PushedOf(b, i)) = 3

\* the position of a record in a list that holds it
IndexIn(list, r) == CHOOSE p \in 1..Len(list) : list[p] = r

SameInstant(a, b) ==
  DateParse(a.date) # NaN /\ DateParse(b.date) # NaN /\ DateParse(a.date) = DateParse(b.date)

\* C25: across a merge, records of a scenario with equal timestamps that the
\* list held before stay in the order they had, and a record the merge adds
\* comes after the records held before that share its timestamp
C25_EqualTimestampsKeepOrder ==
  \A b \in MergedBatches : \A k \in Scenarios :
    LET old == batch[b].before[k]
        new == batch[b].after[k]
    IN  /\ \A e1, e2 \in Range(old) \cap Range(new) :
              (SameInstant(e1, e2) /\ IndexIn(old, e1) < IndexIn(old, e2)) =>
                IndexIn(new, e1) < IndexIn(new, e2)
        /\ \A e \in Range(old) \cap Range(new) : \A n \in NewRecords(b, k) \cap Range(new) :
              SameInstant(e, n) => IndexIn(new, e) < IndexIn(new, n)

\* C26: every record the series holds under the key k has the scenario k
C26_RecordsFiledUnderOwnScenario ==
  \A k \in Scenarios : \A r \in Range(stats[k]) : r.scenario = k

\* merges have filed records under both keys
C26_BothKeysHoldRecords ==
  /\ \A k \in Scenarios : stats[k] # <<>>
  /\ \A b \in Batches : batch[b].merged /\ batch[b].pushed # <<>>

\* C27: the processing flag is set whenever a batch is in flight; the completion
\* of one of two overlapping batches leaves it set while the other one runs
C27_ProcessingWhileInFlight ==
  (\E b \in Batches : batch[b].st = "running") => isProcessing

\* the scenarios of the series that hold the most records
MostRecords(series) ==
  {k \in Keys(series) : \A o \in Keys(series) : Len(series[k]) >= Len(series[o])}

\* C29: in page.tsx the selected scenario is unset or a key of the series; no
\* step removes a key of the series; and a step that starts with no scenario
\* selected and ends with a series that is not empty selects a scenario that
\* holds the most records
C29_SelectionIsAKeyWithMostRecords ==
  /\ [](selectedScenario = NoScenario \/ selectedScenario \in Keys(stats))
  /\ [][/\ Keys(stats) \subseteq Keys(stats')
        /\ (selectedScenario = NoScenario /\ Keys(stats') # {}) =>
              selectedScenario' \in MostRecords(stats')]_vars

\* the first drop held a log of B followed by two logs of A, and A is selected
C29_LargerScenarioSelected ==
  /\ impl = "page"
  /\ batch[1].merged /\ batch[1].before = EmptySeries
  /\ batch[1].files = <<PoolIndex(FB18), PoolIndex(FA18), PoolIndex(FA18b)>>
  /\ batch[1].order[1] = 1
  /\ stats = batch[1].after
  /\ Len(stats["A"]) = 2 /\ Len(stats["B"]) = 1
  /\ selectedScenario = "A"

\* the rows of the scores table of the users of a selection
ScoresOf(selection) ==
  SelectSeq(CloudScores, LAMBDA run : \E u \in 1..Len(selection) : selection[u] = run.user_id)

\* C28: on the compare page, when no call of fetchStats is awaiting its
\* response, the comparison data is the data of the current selection, and it
\* is empty when no user is selected
C28_DataOfCurrentSelection ==
  fetches = <<>> =>
    comparisonData = IF selectedUsers = <<>> THEN <<>> ELSE Processed(ScoresOf(selectedUsers))

====
